---- MODULE Spec2Model ----
(***************************************************************************)
(* Model of scripts/dev-watcher.py: the debounced watch-build-copy         *)
(* pipeline of PluginDevWatcher and the two modes of main().               *)
(*                                                                         *)
(* Time is counted in whole seconds.  Every timestamp the program keeps    *)
(* (last_rebuild_time, last_copy_time, the mtime of main.js) is modelled   *)
(* by its age, time.time() minus the timestamp, saturated at the first     *)
(* value the program can no longer tell from a larger one.  A blocking     *)
(* call (sleep, subprocess.run, Popen.wait) is a timer that Tick advances; *)
(* every other step takes no time, and time passes only when no such step  *)
(* is pending.  A subprocess.run takes at least one second in the model.   *)
(***************************************************************************)
EXTENDS Naturals, Integers, Sequences, FiniteSets

\* ---- program constants -------------------------------------------------
debounce_seconds == 2
rebuild_debounce_seconds == 1
GraceSeconds == 3
SettleSeconds == 1
BuildTimeout == 60
RebuildTimeout == 30
RecencyWindow == 30
WaitTimeout == 5
\* the status of a process that SIGTERM has killed: 128 + the signal's number
ExitKilledBySigterm == 128 + 15

\* ---- bounds of the model -----------------------------------------------
\* events the watcher service emits in one run
MaxEvents == 2
\* termination signals delivered in one run
MaxSignals == 1
\* seconds a build is followed second by second; a build that has not
\* returned by then runs on, undisturbed, to its timeout
MaxBuildTime == 1
\* the largest size of main.js a direct call of the verifier is given
MaxSize == 2
\* one-shot runs made one after the other
MaxRuns == 2
\* direct calls of the debounce gates
MaxCalls == 5
\* events the observer's queue holds when the program's own writes add to it
MaxQueue == 4
\* reports of the background process that fit into its pipe
PipeCapacity == 2

files_to_copy == <<"main.js", "styles.css", "manifest.json">>
FileNames == {files_to_copy[i] : i \in 1..Len(files_to_copy)}

NoFile == [exists |-> FALSE, size |-> 0, content |-> 0]
File(size, content) == [exists |-> TRUE, size |-> size, content |-> content]
\* what a previous session left behind: a build of an older source
OldFile == File(1, 0)

Min(a, b) == IF a < b THEN a ELSE b

VARIABLES
    mode,            \* args.mode
    vault_path,      \* args.vault_path or OBSIDIAN_VAULT_PATH is set
    manifest,        \* what manifest.json holds: "missing", "malformed", "no_id",
                     \* "no_name" (an id and no name), "ok" (an id and a name)
    pc,              \* position of the main thread
    exit_code,       \* -1 while the process runs
    installed,       \* signal.signal has installed signal_handler
    signals,         \* termination signals delivered so far
    dev_process,     \* self.dev_process: "none", "running", "terminating", "terminated", "killed"
    observer,        \* "none", "scheduled", "started", "stopping", "stopped"
    queue,           \* events the observer has not dispatched yet
    emitted,         \* events the watcher service has emitted so far
    hpc,             \* position of the observer thread inside on_modified
    htimer,          \* seconds the observer thread has been in its blocking call
    mtimer,          \* seconds the main thread has been in its blocking call
    rebuild_age,     \* time.time() - self.last_rebuild_time, saturated
    copy_age,        \* time.time() - self.last_copy_time, saturated
    root,            \* the three artifact files in the project root
    main_age,        \* time.time() - st_mtime of project_root/main.js, saturated
    dest_kind,       \* plugin_dir is "absent", a "dir" or a "file"
    dest,            \* the three artifact files in plugin_dir
    trigger,         \* the event that started the last rebuild
    initial,         \* how the initial copy of start_dev_mode ended: "none", "ok", "failed", "raised"
    checked,         \* a direct call of _check_build_success: its argument and result
    call,            \* a direct call of another method: its arguments and results
    pipe,            \* reports of dev_process that sit unread in its stderr pipe
    last_pass        \* the build-verify-copy pass that has just ended

vars == <<mode, vault_path, manifest, pc, exit_code, installed, signals,
          dev_process, observer, queue, emitted, hpc, htimer, mtimer, rebuild_age,
          copy_age, root, main_age, dest_kind, dest, trigger, initial, checked,
          call, pipe, last_pass>>

inputs == <<mode, vault_path, manifest>>
main_thread == <<pc, exit_code, installed, signals, mtimer>>
observer_thread == <<observer, queue, emitted, hpc, htimer, trigger>>
gates == <<rebuild_age, copy_age>>
project == <<root, main_age>>
plugin_dir == <<dest_kind, dest>>

RebuildAgeCap == rebuild_debounce_seconds + 1
CopyAgeCap == debounce_seconds + 1

NoPass == [kind |-> "none", outcome |-> "none", wrote |-> FALSE, verified |-> FALSE,
           copied |-> {}, ok |-> FALSE, raised |-> FALSE, failing |-> {}]

NoTrigger == [prompt |-> FALSE, near |-> FALSE]

NoCheck == [called |-> FALSE, is_initial_copy |-> FALSE, result |-> FALSE]

NoCall == [op |-> "none"]

\* last_pass describes a pass only in the state the pass ends in
Forget == last_pass' = NoPass

\* the sets of files whose shutil.copy2 raises in one copy pass
FailureSets == {{}, {"main.js"}, {"styles.css"}, FileNames}

\* ---- variants of the program with one plausible fault each -------------
\* the recency test with <= in place of <
CheckAtOrWithin(is_initial_copy, main_js, age) ==
    IF main_js.exists
    THEN IF is_initial_copy
         THEN main_js.size > 0
         ELSE age <= RecencyWindow
    ELSE FALSE

\* a copy loop that gives up at the first file it cannot copy
RECURSIVE CopyUntilFailure(_, _, _, _, _)
CopyUntilFailure(i, rt, dst, copied, failing) ==
    IF i > Len(files_to_copy)
    THEN [dest |-> dst, copied |-> copied]
    ELSE LET filename == files_to_copy[i] IN
         IF rt[filename].exists /\ filename \notin failing
         THEN CopyUntilFailure(i + 1, rt, [dst EXCEPT ![filename] = rt[filename]],
                               copied \cup {filename}, failing)
         ELSE [dest |-> dst, copied |-> copied]

\* ---- the Build Verifier ------------------------------------------------
\* age is current_time - file_mtime
_check_build_success(is_initial_copy, main_js, age) ==
    IF main_js.exists
    THEN IF is_initial_copy
         THEN main_js.size > 0
         ELSE age < RecencyWindow
    ELSE FALSE

\* ---- the Artifact Copier -----------------------------------------------
\* the for loop over files_to_copy from position i on; failing is the set of
\* files whose shutil.copy2 raises
RECURSIVE CopyLoop(_, _, _, _, _)
CopyLoop(i, rt, dst, copied, failing) ==
    IF i > Len(files_to_copy)
    THEN [dest |-> dst, copied |-> copied]
    ELSE LET filename == files_to_copy[i] IN
         IF rt[filename].exists /\ filename \notin failing
         THEN CopyLoop(i + 1, rt, [dst EXCEPT ![filename] = rt[filename]],
                       copied \cup {filename}, failing)
         ELSE CopyLoop(i + 1, rt, dst, copied, failing)

\* a copy that reports success only when every file was copied
CopyAllOrFail(is_initial_copy, rt, age, dkind, dst, failing) ==
    IF ~_check_build_success(is_initial_copy, rt["main.js"], age)
    THEN [raised |-> FALSE, ok |-> FALSE, verified |-> FALSE, dest_kind |-> dkind,
          dest |-> dst, copied |-> {}]
    ELSE IF dkind = "file"
    THEN [raised |-> TRUE, ok |-> FALSE, verified |-> TRUE, dest_kind |-> dkind,
          dest |-> dst, copied |-> {}]
    ELSE LET r == CopyLoop(1, rt, dst, {}, failing) IN
         [raised |-> FALSE, ok |-> r.copied = FileNames, verified |-> TRUE,
          dest_kind |-> "dir", dest |-> r.dest, copied |-> r.copied]

_copy_plugin_files(is_initial_copy, rt, age, dkind, dst, failing) ==
    IF ~_check_build_success(is_initial_copy, rt["main.js"], age)
    THEN [raised |-> FALSE, ok |-> FALSE, verified |-> FALSE, dest_kind |-> dkind,
          dest |-> dst, copied |-> {}]
    ELSE IF dkind = "file"
    THEN \* plugin_dir.mkdir(parents=True, exist_ok=True) raises FileExistsError
         [raised |-> TRUE, ok |-> FALSE, verified |-> TRUE, dest_kind |-> dkind,
          dest |-> dst, copied |-> {}]
    ELSE LET r == CopyLoop(1, rt, dst, {}, failing) IN
         [raised |-> FALSE, ok |-> r.copied # {}, verified |-> TRUE, dest_kind |-> "dir",
          dest |-> r.dest, copied |-> r.copied]

\* a rebuild gate that waits for the cooldown of the other gate
RebuildGateWithCopyCooldown(age) ==
    IF age > debounce_seconds
    THEN [accept |-> TRUE, age |-> 0]
    ELSE [accept |-> FALSE, age |-> age]

\* a gate that stamps its timestamp on every call
StampOnEveryCall(age) ==
    [accept |-> age > debounce_seconds, age |-> 0]

\* ---- the Debounce Gate -------------------------------------------------
\* age is current_time - self.last_rebuild_time; the result holds the answer
\* and the age of the timestamp afterwards
_should_rebuild(age) ==
    IF age > rebuild_debounce_seconds
    THEN [accept |-> TRUE, age |-> 0]
    ELSE [accept |-> FALSE, age |-> age]

_should_copy(age) ==
    IF age > debounce_seconds
    THEN [accept |-> TRUE, age |-> 0]
    ELSE [accept |-> FALSE, age |-> age]

\* ---- file-system events ------------------------------------------------
\* an event path is the sequence of its parts below the project root
Name(path) == path[Len(path)]

\* Path.suffix of the file names the model knows
Suffix(name) ==
    CASE name \in {"index.ts"} -> ".ts"
      [] name \in {"App.tsx"} -> ".tsx"
      [] name \in {"main.js", "util.js"} -> ".js"
      [] name \in {"view.jsx"} -> ".jsx"
      [] name \in {"package.json", "tsconfig.json", "manifest.json", ".eslintrc.json"} -> ".json"
      [] name \in {"styles.css"} -> ".css"
      [] name \in {"esbuild.config.mjs"} -> ".mjs"
      [] name \in {"README.md"} -> ".md"
      [] OTHER -> ""

\* str.startswith('.') of the file names the model knows
StartsWithDot(name) == name \in {".eslintrc.json", ".gitignore"}

\* Path.is_relative_to(project_root / "src")
InSrc(path) == Len(path) > 1 /\ path[1] = "src"

Parts(path) == {path[i] : i \in 1..Len(path)}

\* a filter that looks at the extension alone
RelevantBySuffixAlone(event) ==
    IF event.is_directory
    THEN FALSE
    ELSE Suffix(Name(event.src_path)) \in {".ts", ".tsx", ".js", ".jsx", ".json", ".css"}

\* the filter at the head of on_modified: TRUE when the event gets as far as
\* the debounce check
IsRelevant(event) ==
    IF event.is_directory
    THEN FALSE
    ELSE LET file_path == event.src_path IN
         IF \/ Name(file_path) = "main.js"
            \/ StartsWithDot(Name(file_path))
            \/ "node_modules" \in Parts(file_path)
            \/ Suffix(Name(file_path)) \notin {".ts", ".tsx", ".js", ".jsx", ".json", ".css"}
         THEN FALSE
         ELSE IF ~(\/ InSrc(file_path)
                   \/ Name(file_path) \in {"package.json", "tsconfig.json", "esbuild.config.mjs"})
         THEN FALSE
         ELSE TRUE

\* FileSystemEventHandler.dispatch calls on_modified for modified events only
CallsOnModified(event) == event.event_type = "modified"

\* the events the watcher service emits in the model
Shapes ==
    { [event_type |-> "modified", is_directory |-> FALSE, src_path |-> <<"src", "index.ts">>],
      [event_type |-> "modified", is_directory |-> FALSE, src_path |-> <<"main.js">>] }

\* ---- a build and what follows it ---------------------------------------
Outcomes == {"ok", "fail", "timeout", "error"}

\* what a build may do to main.js, by the way it ends
Writes(outcome) ==
    CASE outcome = "ok" -> {"none", "full", "empty"}
      [] outcome = "fail" -> {"none", "full"}
      [] OTHER -> {"none"}

\* what the build makes of the current sources
Built == File(1, 1)

AfterBuild(rt, write) ==
    CASE write = "full" -> [rt EXCEPT !["main.js"] = Built]
      [] write = "empty" -> [rt EXCEPT !["main.js"] = File(0, 0)]
      [] OTHER -> rt

NoCopy(dkind, dst) ==
    [raised |-> FALSE, ok |-> FALSE, verified |-> FALSE, dest_kind |-> dkind,
     dest |-> dst, copied |-> {}]

\* a rebuild that copies without looking at the return code
RebuildCopiesAnyway(outcome, rt, age, dkind, dst, failing) ==
    [_copy_plugin_files(FALSE, rt, age, dkind, dst, failing) EXCEPT !.raised = FALSE]

\* a rebuild without the except clauses around the copy
RebuildLetsExceptionsEscape(outcome, rt, age, dkind, dst, failing) ==
    IF outcome = "ok"
    THEN _copy_plugin_files(FALSE, rt, age, dkind, dst, failing)
    ELSE NoCopy(dkind, dst)

\* what follows subprocess.run in _rebuild_plugin; every exception is caught
_rebuild_plugin(outcome, rt, age, dkind, dst, failing) ==
    IF outcome = "ok"
    THEN [_copy_plugin_files(FALSE, rt, age, dkind, dst, failing) EXCEPT !.raised = FALSE]
    ELSE NoCopy(dkind, dst)

\* a one-shot pass that returns True after every build that exits 0
BuildOnceIgnoresCopy(outcome, rt, age, dkind, dst, failing) ==
    IF outcome = "ok"
    THEN LET r == _copy_plugin_files(TRUE, rt, age, dkind, dst, failing) IN
         [pass |-> [r EXCEPT !.raised = FALSE], result |-> TRUE]
    ELSE [pass |-> NoCopy(dkind, dst), result |-> FALSE]

\* what follows subprocess.run in build_and_copy_once; result is the value
\* returned to main
build_and_copy_once(outcome, rt, age, dkind, dst, failing) ==
    IF outcome = "ok"
    THEN LET r == _copy_plugin_files(TRUE, rt, age, dkind, dst, failing) IN
         [pass |-> [r EXCEPT !.raised = FALSE], result |-> (~r.raised /\ r.ok)]
    ELSE [pass |-> NoCopy(dkind, dst), result |-> FALSE]

Pass(kind, outcome, write, r, failing) ==
    [kind |-> kind, outcome |-> outcome, wrote |-> (write # "none"),
     verified |-> r.verified, copied |-> r.copied, ok |-> r.ok, raised |-> r.raised,
     failing |-> failing]

\* ---- the state after the interpreter has started -----------------------
\* the vault root, and the id and the name that a manifest.json holding them
\* gives
obsidian_vault_path == <<"vault">>
PluginId == "my-plugin"
PluginName == "My Plugin"

\* what _load_plugin_info returns for a manifest that does not load
None == [id |-> "", name |-> "", plugin_dir |-> <<>>]

\* a descriptor loader in which a manifest without a name is an error
LoadRequiresName(file) ==
    IF file = "ok"
    THEN [id |-> PluginId, name |-> PluginName,
          plugin_dir |-> obsidian_vault_path \o <<".obsidian", "plugins", PluginId>>]
    ELSE None

\* _load_plugin_info: file is what manifest.json holds
_load_plugin_info(file) ==
    IF file = "missing"
    THEN None
    ELSE IF file \in {"malformed", "no_id"}
    THEN \* json.JSONDecodeError, KeyError
         None
    ELSE [id |-> PluginId,
          name |-> IF file = "no_name" THEN PluginId ELSE PluginName,
          plugin_dir |-> obsidian_vault_path \o <<".obsidian", "plugins", PluginId>>]

\* __init__, lines 31-33
ManifestLoads == _load_plugin_info(manifest) # None

Init ==
    /\ mode \in {"watch", "build"}
    /\ vault_path \in BOOLEAN
    /\ manifest \in {"missing", "malformed", "no_id", "ok"}
    /\ pc = "args"
    /\ exit_code = -1
    /\ installed = FALSE
    /\ signals = 0
    /\ dev_process = "none"
    /\ observer = "none"
    /\ queue = <<>>
    /\ emitted = 0
    /\ hpc = "idle"
    /\ htimer = 0
    /\ mtimer = 0
    /\ pipe = 0
    \* last_rebuild_time = 0 and last_copy_time = 0 lie decades before time.time()
    /\ rebuild_age = RebuildAgeCap
    /\ copy_age = CopyAgeCap
    /\ \E main_js \in {NoFile, OldFile}, styles \in {NoFile, File(1, 1)} :
          root = [f \in FileNames |->
                    CASE f = "main.js" -> main_js
                      [] f = "styles.css" -> styles
                      [] OTHER -> IF manifest = "missing" THEN NoFile ELSE File(1, 1)]
    /\ main_age = RecencyWindow
    /\ dest_kind \in {"absent", "dir", "file"}
    /\ dest = [f \in FileNames |-> IF dest_kind = "dir" THEN OldFile ELSE NoFile]
    /\ trigger = NoTrigger
    /\ initial = "none"
    /\ checked = NoCheck
    /\ call = NoCall
    /\ last_pass = NoPass

Exit(code) ==
    /\ pc' = "stopped"
    /\ exit_code' = code

\* ---- main(): start-up --------------------------------------------------
\* lines 325-329: the vault path
ParseArgs ==
    /\ pc = "args"
    /\ IF vault_path
       THEN /\ pc' = "construct"
            /\ UNCHANGED exit_code
       ELSE Exit(1)
    /\ UNCHANGED <<inputs, checked, pipe, call, installed, signals, mtimer, dev_process, observer_thread,
                   gates, project, plugin_dir, initial>>
    /\ Forget

\* PluginDevWatcher(...): a manifest that does not load raises ValueError,
\* which both modes catch and turn into sys.exit(1)
Construct ==
    /\ pc = "construct"
    /\ IF ManifestLoads
       THEN /\ pc' = "create_dir"
            /\ UNCHANGED exit_code
       ELSE Exit(1)
    /\ UNCHANGED <<inputs, checked, pipe, call, installed, signals, mtimer, dev_process, observer_thread,
                   gates, project, plugin_dir, initial>>
    /\ Forget

\* a directory creation that fails when the directory is already there
CreateFailsIfExists(dkind, mkdir_ok) ==
    IF dkind = "absent" /\ mkdir_ok
    THEN [result |-> TRUE, dest_kind |-> "dir"]
    ELSE [result |-> FALSE, dest_kind |-> dkind]

\* _create_plugin_directory at the head of start_dev_mode and of
\* build_and_copy_once; mkdir_ok is whether plugin_dir.mkdir succeeds
_create_plugin_directory(dkind, mkdir_ok) ==
    IF dkind = "absent"
    THEN IF mkdir_ok
         THEN [result |-> TRUE, dest_kind |-> "dir"]
         ELSE [result |-> FALSE, dest_kind |-> dkind]
    ELSE [result |-> TRUE, dest_kind |-> dkind]

CreateDir ==
    /\ pc = "create_dir"
    /\ \E mkdir_ok \in BOOLEAN :
          LET r == _create_plugin_directory(dest_kind, mkdir_ok) IN
          /\ dest_kind' = r.dest_kind
          /\ IF r.result
             THEN /\ pc' = IF mode = "build" THEN "once_build" ELSE "popen"
                  /\ UNCHANGED exit_code
             ELSE Exit(1)
    /\ UNCHANGED <<inputs, checked, pipe, call, installed, signals, mtimer, dev_process, observer_thread,
                   gates, project, dest, initial>>
    /\ Forget

\* start_dev_mode, lines 83-95: subprocess.Popen(["pnpm", "run", "dev"])
StartDevProcess ==
    /\ pc = "popen"
    /\ \E launched \in BOOLEAN :
          IF launched
          THEN /\ dev_process' = "running"
               /\ pc' = "grace"
               /\ UNCHANGED exit_code
          ELSE /\ Exit(1)
               /\ UNCHANGED dev_process
    /\ UNCHANGED <<inputs, checked, pipe, call, installed, signals, mtimer, observer_thread,
                   gates, project, plugin_dir, initial>>
    /\ Forget

\* start_dev_mode, line 99: time.sleep(3) has returned
GraceOver ==
    /\ pc = "grace"
    /\ mtimer >= GraceSeconds
    /\ pc' = "initial_copy"
    /\ mtimer' = 0
    /\ UNCHANGED <<inputs, checked, pipe, call, exit_code, installed, signals, dev_process, observer_thread,
                   gates, project, plugin_dir, initial>>
    /\ Forget

\* a start_dev_mode that gives up when the initial copy reports failure
AfterInitialCopyStrict(r) == IF r.raised \/ ~r.ok THEN "cleanup" ELSE "setup"

\* start_dev_mode, lines 101-106, and main, lines 364-366 and 392-395: where
\* the initial copy leaves the main thread.  A copy that reports failure is
\* a warning; an exception reaches main's except Exception, which cleans up
\* and exits 1.
AfterInitialCopy(r) == IF r.raised THEN "cleanup" ELSE "setup"

InitialOutcome(r) == IF r.raised THEN "raised" ELSE IF r.ok THEN "ok" ELSE "failed"

InitialCopy ==
    /\ pc = "initial_copy"
    /\ \E failing \in FailureSets :
          LET r == _copy_plugin_files(TRUE, root, main_age, dest_kind, dest, failing) IN
          /\ dest' = r.dest
          /\ dest_kind' = r.dest_kind
          /\ last_pass' = Pass("initial", "none", "none", r, failing)
          /\ initial' = InitialOutcome(r)
          /\ pc' = AfterInitialCopy(r)
    /\ UNCHANGED <<inputs, checked, pipe, call, exit_code, installed, signals, mtimer, dev_process,
                   observer_thread, gates, project>>

\* main, lines 369-378: Observer(), observer.schedule, def signal_handler
SetUp ==
    /\ pc = "setup"
    /\ observer' = "scheduled"
    /\ pc' = "install"
    /\ UNCHANGED <<inputs, checked, pipe, call, exit_code, installed, signals, mtimer, dev_process,
                   queue, emitted, hpc, htimer, trigger, gates, project, plugin_dir, initial>>
    /\ Forget

\* main, lines 380-381: signal.signal for SIGINT and SIGTERM
InstallHandlers ==
    /\ pc = "install"
    /\ installed' = TRUE
    /\ pc' = "obs_start"
    /\ UNCHANGED <<inputs, checked, pipe, call, exit_code, signals, mtimer, dev_process, observer_thread,
                   gates, project, plugin_dir, initial>>
    /\ Forget

\* main, lines 383-388: observer.start(), then the sleep loop
StartObserver ==
    /\ pc = "obs_start"
    /\ observer' = "started"
    /\ pc' = "watching"
    /\ UNCHANGED <<inputs, checked, pipe, call, exit_code, installed, signals, mtimer, dev_process,
                   queue, emitted, hpc, htimer, trigger, gates, project, plugin_dir, initial>>
    /\ Forget

\* ---- termination signals and shutdown ----------------------------------
\* the positions of the main thread at which the background process has
\* been launched
LaunchedPcs == {"grace", "initial_copy", "setup", "install", "obs_start", "watching",
                "cleanup", "wait", "obs_stop", "obs_join"}

\* Where a signal takes the main thread.  With signal_handler installed it
\* runs (again, when it is already running: the nested call ends the
\* process).  Before that SIGTERM has its default action and kills the
\* process; SIGINT raises KeyboardInterrupt, whose except clause calls
\* signal_handler: a name bound only once line 373 has run, otherwise the
\* call raises UnboundLocalError and the process ends with a traceback.
OnSignal(sig, at, handlers_installed) ==
    IF handlers_installed \/ (sig = "SIGINT" /\ at = "install")
    THEN [pc |-> "cleanup", exit_code |-> -1]
    ELSE IF sig = "SIGTERM"
    THEN [pc |-> "stopped", exit_code |-> ExitKilledBySigterm]
    ELSE [pc |-> "stopped", exit_code |-> 1]

Signal(sig) ==
    /\ exit_code = -1
    /\ mode = "watch"
    /\ pc \in LaunchedPcs
    /\ signals < MaxSignals
    /\ signals' = signals + 1
    /\ LET r == OnSignal(sig, pc, installed) IN
          /\ pc' = r.pc
          /\ exit_code' = r.exit_code
    /\ mtimer' = 0
    /\ UNCHANGED <<inputs, checked, pipe, call, installed, dev_process, observer_thread, gates, project,
                   plugin_dir, initial>>
    /\ Forget

\* a cleanup that does not ask the subprocess to terminate
TerminateNothing(process) == process

\* cleanup, lines 296-298: self.dev_process.terminate()
Terminate(process) == IF process = "running" THEN "terminating" ELSE process

Cleanup ==
    /\ pc = "cleanup"
    /\ dev_process' = Terminate(dev_process)
    /\ pc' = "wait"
    /\ mtimer' = 0
    /\ UNCHANGED <<inputs, checked, pipe, call, exit_code, installed, signals, observer_thread, gates,
                   project, plugin_dir, initial>>
    /\ Forget

\* cleanup, line 299: self.dev_process.wait(timeout=5) returns
WaitReturns ==
    /\ pc = "wait"
    /\ dev_process' = IF dev_process = "terminating" THEN "terminated" ELSE dev_process
    /\ pc' = "obs_stop"
    /\ mtimer' = 0
    /\ UNCHANGED <<inputs, checked, pipe, call, exit_code, installed, signals, observer_thread, gates,
                   project, plugin_dir, initial>>
    /\ Forget

\* cleanup, lines 301-303: TimeoutExpired, then self.dev_process.kill()
WaitTimesOut ==
    /\ pc = "wait"
    /\ dev_process = "terminating"
    /\ mtimer >= WaitTimeout
    /\ dev_process' = "killed"
    /\ pc' = "obs_stop"
    /\ mtimer' = 0
    /\ UNCHANGED <<inputs, checked, pipe, call, exit_code, installed, signals, observer_thread, gates,
                   project, plugin_dir, initial>>
    /\ Forget

\* observer.stop() of signal_handler (line 376) and of the except clause
\* (lines 396-397); the except clause exits 1 when no observer exists yet
StopObserver ==
    /\ pc = "obs_stop"
    /\ IF observer = "none"
       THEN /\ Exit(1)
            /\ UNCHANGED observer
       ELSE /\ observer' = IF observer = "started" THEN "stopping" ELSE observer
            /\ pc' = "obs_join"
            /\ UNCHANGED exit_code
    /\ UNCHANGED <<inputs, checked, pipe, call, installed, signals, mtimer, dev_process, queue, emitted,
                   hpc, htimer, trigger, gates, project, plugin_dir, initial>>
    /\ Forget

\* observer.join(), then sys.exit(0).  Joining an observer that was never
\* started raises RuntimeError: the process ends with status 1.  Otherwise
\* join returns when the observer thread has left on_modified.
JoinObserver ==
    /\ pc = "obs_join"
    /\ IF observer = "scheduled"
       THEN /\ Exit(1)
            /\ UNCHANGED observer
       ELSE /\ hpc \in {"idle", "dead"}
            /\ observer' = "stopped"
            /\ Exit(0)
    /\ UNCHANGED <<inputs, checked, pipe, call, installed, signals, mtimer, dev_process, queue, emitted,
                   hpc, htimer, trigger, gates, project, plugin_dir, initial>>
    /\ Forget

\* ---- main(): --mode build ----------------------------------------------
Failing(outcome) == IF outcome = "ok" THEN FailureSets ELSE {{}}

\* build_and_copy_once: subprocess.run(timeout=60) returns or fails to
\* launch, the files are copied, main exits
BuildOnceReturns ==
    /\ pc = "once_build"
    /\ mtimer >= 1
    /\ \E outcome \in Outcomes \ {"timeout"} :
       \E write \in Writes(outcome), failing \in Failing(outcome) :
          LET rt == AfterBuild(root, write)
              age == IF write = "none" THEN main_age ELSE 0
              b == build_and_copy_once(outcome, rt, age, dest_kind, dest, failing)
          IN  /\ root' = rt
              /\ main_age' = age
              /\ dest' = b.pass.dest
              /\ dest_kind' = b.pass.dest_kind
              /\ last_pass' = Pass("once", outcome, write, b.pass, failing)
              /\ Exit(IF b.result THEN 0 ELSE 1)
    /\ mtimer' = 0
    /\ UNCHANGED <<inputs, checked, pipe, call, installed, signals, dev_process, observer_thread, gates,
                   initial>>

\* build_and_copy_once: subprocess.TimeoutExpired after 60 seconds
BuildOnceTimesOut ==
    /\ pc = "once_build"
    /\ mtimer = MaxBuildTime
    /\ LET b == build_and_copy_once("timeout", root, RecencyWindow, dest_kind, dest, {}) IN
          /\ last_pass' = Pass("once", "timeout", "none", b.pass, {})
          /\ dest' = b.pass.dest
          /\ dest_kind' = b.pass.dest_kind
          /\ Exit(IF b.result THEN 0 ELSE 1)
    /\ main_age' = Min(RecencyWindow, main_age + (BuildTimeout - mtimer))
    /\ rebuild_age' = RebuildAgeCap
    /\ copy_age' = CopyAgeCap
    /\ mtimer' = 0
    /\ UNCHANGED <<inputs, checked, pipe, call, installed, signals, dev_process, observer_thread, root,
                   initial>>

\* ---- the watcher service and the observer thread -----------------------
\* The watcher service emits an event.  prompt: the observer thread is free
\* and takes the event the moment it is emitted.  near: the event is emitted
\* less than rebuild_debounce_seconds after the emission of the event that
\* started the last rebuild.
EmitEvent ==
    /\ exit_code = -1
    /\ observer = "started"
    /\ emitted < MaxEvents
    /\ emitted' = emitted + 1
    /\ \E shape \in Shapes :
          queue' = Append(queue,
                [event_type |-> shape.event_type,
                 is_directory |-> shape.is_directory,
                 src_path |-> shape.src_path,
                 prompt |-> (hpc = "idle" /\ queue = <<>>),
                 near |-> (trigger.prompt /\ rebuild_age < rebuild_debounce_seconds)])
    /\ UNCHANGED <<inputs, checked, pipe, call, main_thread, dev_process, observer, hpc, htimer, trigger,
                   gates, root, main_age, plugin_dir, initial>>
    /\ Forget

\* a handler that asks the debounce gate before it looks at the path
GateBeforeFilter(event, age) ==
    LET gate == _should_rebuild(age) IN
    [rebuild |-> gate.accept /\ IsRelevant(event), rebuild_age |-> gate.age]

\* on_modified, lines 262-285: an event that passes the filter and the
\* debounce gate starts the settle delay
on_modified(event, age) ==
    IF IsRelevant(event)
    THEN LET gate == _should_rebuild(age) IN
         [rebuild |-> gate.accept, rebuild_age |-> gate.age]
    ELSE [rebuild |-> FALSE, rebuild_age |-> age]

\* an observer that hands every event to a thread of its own
DispatchOnOwnThread ==
    /\ exit_code = -1
    /\ observer = "started"
    /\ queue # <<>>
    /\ LET event == Head(queue)
           r == IF CallsOnModified(event)
                THEN on_modified(event, rebuild_age)
                ELSE [rebuild |-> FALSE, rebuild_age |-> rebuild_age]
       IN  /\ queue' = Tail(queue)
           /\ rebuild_age' = r.rebuild_age
           /\ hpc' = IF r.rebuild THEN "settle" ELSE hpc
           /\ trigger' = IF r.rebuild
                         THEN [prompt |-> event.prompt, near |-> event.near]
                         ELSE trigger
    /\ htimer' = IF hpc' = hpc THEN htimer ELSE 0
    /\ Forget
    /\ UNCHANGED <<inputs, checked, pipe, call, main_thread, dev_process, observer, emitted, copy_age,
                   project, plugin_dir, initial>>

\* the observer thread takes the next event off the queue
Dispatch ==
    /\ exit_code = -1
    /\ observer = "started"
    /\ hpc = "idle"
    /\ queue # <<>>
    /\ LET event == Head(queue)
           r == IF CallsOnModified(event)
                THEN on_modified(event, rebuild_age)
                ELSE [rebuild |-> FALSE, rebuild_age |-> rebuild_age]
       IN  /\ queue' = Tail(queue)
           /\ rebuild_age' = r.rebuild_age
           /\ hpc' = IF r.rebuild THEN "settle" ELSE "idle"
           /\ trigger' = IF r.rebuild
                         THEN [prompt |-> event.prompt, near |-> event.near]
                         ELSE trigger
    /\ htimer' = 0
    /\ Forget
    /\ UNCHANGED <<inputs, checked, pipe, call, main_thread, dev_process, observer, emitted, copy_age,
                   project, plugin_dir, initial>>

\* on_modified, lines 288-291: time.sleep(1) has returned, _rebuild_plugin
\* starts subprocess.run
SettleOver ==
    /\ exit_code = -1
    /\ hpc = "settle"
    /\ htimer >= SettleSeconds
    /\ hpc' = "building"
    /\ htimer' = 0
    /\ UNCHANGED <<inputs, checked, pipe, call, main_thread, dev_process, observer, queue, emitted, trigger,
                   gates, project, plugin_dir, initial>>
    /\ Forget

\* on_modified, line 291: where _rebuild_plugin leaves the observer thread.
\* An exception that left on_modified would end the thread that dispatches
\* the events.
AfterRebuild(r) == IF r.raised THEN "dead" ELSE "idle"

\* _rebuild_plugin: subprocess.run(timeout=30) returns or fails to launch,
\* and the files are copied after a build that exits 0
RebuildReturns ==
    /\ exit_code = -1
    /\ hpc = "building"
    /\ htimer >= 1
    /\ \E outcome \in Outcomes \ {"timeout"} :
       \E write \in Writes(outcome), failing \in Failing(outcome) :
          LET rt == AfterBuild(root, write)
              age == IF write = "none" THEN main_age ELSE 0
              r == _rebuild_plugin(outcome, rt, age, dest_kind, dest, failing)
          IN  /\ root' = rt
              /\ main_age' = age
              /\ dest' = r.dest
              /\ dest_kind' = r.dest_kind
              /\ last_pass' = Pass("rebuild", outcome, write, r, failing)
              /\ hpc' = AfterRebuild(r)
    /\ htimer' = 0
    /\ UNCHANGED <<inputs, checked, pipe, call, main_thread, dev_process, observer, queue, emitted, trigger,
                   gates, initial>>

\* _rebuild_plugin: subprocess.TimeoutExpired after 30 seconds; the clocks
\* move on by what was left of the timeout
RebuildTimesOut ==
    /\ exit_code = -1
    /\ hpc = "building"
    /\ htimer = MaxBuildTime
    /\ pc \notin {"grace", "wait"}
    /\ LET r == _rebuild_plugin("timeout", root, RecencyWindow, dest_kind, dest, {}) IN
          /\ dest' = r.dest
          /\ dest_kind' = r.dest_kind
          /\ last_pass' = Pass("rebuild", "timeout", "none", r, {})
          /\ hpc' = AfterRebuild(r)
    /\ main_age' = Min(RecencyWindow, main_age + (RebuildTimeout - htimer))
    /\ rebuild_age' = RebuildAgeCap
    /\ copy_age' = CopyAgeCap
    /\ htimer' = 0
    /\ UNCHANGED <<inputs, checked, pipe, call, main_thread, dev_process, observer, queue, emitted, trigger,
                   root, initial>>

\* ---- the background build-watch process --------------------------------
\* pnpm run dev builds main.js from the current sources
DevProcessWrites ==
    /\ exit_code = -1
    /\ dev_process = "running"
    /\ root["main.js"] # Built \/ main_age # 0
    /\ root' = [root EXCEPT !["main.js"] = Built]
    /\ main_age' = 0
    /\ Forget
    /\ UNCHANGED <<inputs, checked, pipe, call, main_thread, dev_process, observer_thread, gates,
                   plugin_dir, initial>>

\* ---- time --------------------------------------------------------------
\* the main thread has a step to take that does not wait
MainReady ==
    \/ pc \in {"args", "construct", "create_dir", "popen", "initial_copy", "setup",
               "install", "obs_start", "cleanup", "obs_stop"}
    \/ pc = "grace" /\ mtimer >= GraceSeconds
    \/ pc = "wait" /\ (dev_process # "terminating" \/ mtimer >= WaitTimeout)
    \/ pc = "obs_join" /\ (observer = "scheduled" \/ hpc \in {"idle", "dead"})
    \/ pc = "once_build" /\ mtimer >= MaxBuildTime

\* the observer thread has a step to take that does not wait
ObserverReady ==
    \/ observer = "started" /\ hpc = "idle" /\ queue # <<>>
    \/ hpc = "settle" /\ htimer >= SettleSeconds
    \/ hpc = "building" /\ htimer >= MaxBuildTime

\* a thread is inside a call that ends after a time
TimerRuns == pc \in {"grace", "wait", "once_build"} \/ hpc \in {"settle", "building"}

\* one second passes while a timer runs
Tick ==
    /\ exit_code = -1
    /\ ~MainReady
    /\ ~ObserverReady
    /\ TimerRuns
    /\ mtimer' = IF pc \in {"grace", "wait", "once_build"} THEN mtimer + 1 ELSE mtimer
    /\ htimer' = IF hpc \in {"settle", "building"} THEN htimer + 1 ELSE htimer
    /\ rebuild_age' = Min(RebuildAgeCap, rebuild_age + 1)
    /\ copy_age' = Min(CopyAgeCap, copy_age + 1)
    /\ main_age' = Min(RecencyWindow, main_age + 1)
    /\ Forget
    /\ UNCHANGED <<inputs, checked, pipe, call, pc, exit_code, installed, signals, dev_process, observer,
                   queue, emitted, hpc, trigger, root, plugin_dir, initial>>

\* Nothing is pending: the process waits for an event or a signal, and a
\* time passes after which every age has reached its saturation.
LongPause ==
    /\ exit_code = -1
    /\ ~MainReady
    /\ ~ObserverReady
    /\ ~TimerRuns
    /\ main_age < RecencyWindow \/ rebuild_age < RebuildAgeCap \/ last_pass # NoPass
    /\ rebuild_age' = RebuildAgeCap
    /\ copy_age' = CopyAgeCap
    /\ main_age' = RecencyWindow
    /\ Forget
    /\ UNCHANGED <<inputs, checked, pipe, call, main_thread, dev_process, observer_thread, root,
                   plugin_dir, initial>>

Next ==
    \/ ParseArgs
    \/ Construct
    \/ CreateDir
    \/ StartDevProcess
    \/ GraceOver
    \/ InitialCopy
    \/ SetUp
    \/ InstallHandlers
    \/ StartObserver
    \/ Signal("SIGINT")
    \/ Signal("SIGTERM")
    \/ Cleanup
    \/ WaitReturns
    \/ WaitTimesOut
    \/ StopObserver
    \/ JoinObserver
    \/ BuildOnceReturns
    \/ BuildOnceTimesOut
    \/ EmitEvent
    \/ Dispatch
    \/ SettleOver
    \/ RebuildReturns
    \/ RebuildTimesOut
    \/ DevProcessWrites
    \/ Tick
    \/ LongPause

Spec == Init /\ [][Next]_vars

\* ---- one-shot mode on its own ------------------------------------------
\* main() with --mode build; the main thread always has a step to take or a
\* second to wait, and subprocess.run returns within its timeout
BuildInit == Init /\ mode = "build"

BuildNext ==
    \/ ParseArgs
    \/ Construct
    \/ CreateDir
    \/ BuildOnceReturns
    \/ BuildOnceTimesOut
    \/ Tick

\* the whole program with its threads scheduled: the observer thread takes
\* the next event when it is free, time.sleep(1) and subprocess.run(timeout=30)
\* return, and time passes
FairSpec ==
    /\ Init
    /\ [][Next]_vars
    /\ WF_vars(Dispatch)
    /\ WF_vars(SettleOver)
    /\ WF_vars(RebuildReturns \/ RebuildTimesOut)
    /\ WF_vars(Tick)

BuildSpec == BuildInit /\ [][BuildNext]_vars /\ WF_vars(BuildNext)

\* ---- configuration on its own ------------------------------------------
\* main() of both modes up to the creation of the destination directory,
\* over every manifest.json; the main thread always takes its next step
ConfigInit ==
    /\ mode \in {"watch", "build"}
    /\ vault_path \in BOOLEAN
    /\ manifest \in {"missing", "malformed", "no_id", "no_name", "ok"}
    /\ pc = "args"
    /\ exit_code = -1
    /\ installed = FALSE
    /\ signals = 0
    /\ dev_process = "none"
    /\ observer = "none"
    /\ queue = <<>>
    /\ emitted = 0
    /\ hpc = "idle"
    /\ htimer = 0
    /\ mtimer = 0
    /\ pipe = 0
    /\ rebuild_age = RebuildAgeCap
    /\ copy_age = CopyAgeCap
    /\ \E main_js \in {NoFile, OldFile}, styles \in {NoFile, File(1, 1)} :
          root = [f \in FileNames |->
                    CASE f = "main.js" -> main_js
                      [] f = "styles.css" -> styles
                      [] OTHER -> IF manifest = "missing" THEN NoFile ELSE File(1, 1)]
    /\ main_age = RecencyWindow
    /\ dest_kind \in {"absent", "dir", "file"}
    /\ dest = [f \in FileNames |-> IF dest_kind = "dir" THEN OldFile ELSE NoFile]
    /\ trigger = NoTrigger
    /\ initial = "none"
    /\ checked = NoCheck
    /\ call = NoCall
    /\ last_pass = NoPass

ConfigNext ==
    \/ ParseArgs
    \/ Construct
    \/ CreateDir

ConfigSpec == ConfigInit /\ [][ConfigNext]_vars /\ WF_vars(ConfigNext)

\* ---- the one-shot pass run again and again -----------------------------
\* what a one-shot run meets: whether mkdir succeeds, how the build ends,
\* what it writes, which copies fail
Environments ==
    {[mkdir_ok |-> m, outcome |-> o, write |-> w, failing |-> f] :
        m \in BOOLEAN, o \in Outcomes, w \in {"none", "full", "empty"}, f \in FailureSets}

\* build_and_copy_once from its first line to its return
RunOnce(env, rt, age, dkind, dst) ==
    LET d == _create_plugin_directory(dkind, env.mkdir_ok) IN
    IF ~d.result
    THEN [result |-> FALSE, root |-> rt, main_age |-> age, dest_kind |-> dkind,
          dest |-> dst]
    ELSE LET after == AfterBuild(rt, env.write)
             a == IF env.write = "none" THEN age ELSE 0
             b == build_and_copy_once(env.outcome, after, a, d.dest_kind, dst,
                                      env.failing)
         IN  [result |-> b.result, root |-> after, main_age |-> a,
              dest_kind |-> b.pass.dest_kind, dest |-> b.pass.dest]

NoRun == [result |-> FALSE, dest_kind |-> "absent", dest |-> [f \in FileNames |-> NoFile]]

\* the same sources, the same build and the same environment in every run
TwiceInit ==
    /\ mode = "build"
    /\ vault_path = TRUE
    /\ manifest = "ok"
    /\ pc = "once_build"
    /\ exit_code = -1
    /\ installed = FALSE
    /\ signals = 0
    /\ dev_process = "none"
    /\ observer = "none"
    /\ queue = <<>>
    /\ emitted = 0
    /\ hpc = "idle"
    /\ htimer = 0
    /\ mtimer = 0
    /\ pipe = 0
    /\ rebuild_age = RebuildAgeCap
    /\ copy_age = CopyAgeCap
    /\ \E main_js \in {NoFile, OldFile}, styles \in {NoFile, File(1, 1)} :
          root = [f \in FileNames |->
                    CASE f = "main.js" -> main_js
                      [] f = "styles.css" -> styles
                      [] OTHER -> File(1, 1)]
    /\ main_age = RecencyWindow
    /\ dest_kind \in {"absent", "dir", "file"}
    /\ dest = [f \in FileNames |-> IF dest_kind = "dir" THEN OldFile ELSE NoFile]
    /\ trigger = NoTrigger
    /\ initial = "none"
    /\ checked = NoCheck
    /\ \E env \in Environments :
          /\ env.write \in Writes(env.outcome)
          /\ env.failing \in Failing(env.outcome)
          /\ call = [op |-> "build_and_copy_once", env |-> env, runs |-> 0,
                     first |-> NoRun]
    /\ last_pass = NoPass

RunBuildOnce ==
    /\ call.op = "build_and_copy_once"
    /\ call.runs < MaxRuns
    /\ LET r == RunOnce(call.env, root, main_age, dest_kind, dest) IN
          /\ root' = r.root
          /\ main_age' = r.main_age
          /\ dest_kind' = r.dest_kind
          /\ dest' = r.dest
          /\ exit_code' = IF r.result THEN 0 ELSE 1
          /\ call' = [call EXCEPT !.runs = @ + 1,
                                  !.first = IF call.runs = 0
                                            THEN [result |-> r.result,
                                                  dest_kind |-> r.dest_kind,
                                                  dest |-> r.dest]
                                            ELSE @]
    /\ pc' = "stopped"
    /\ UNCHANGED <<inputs, checked, pipe, installed, signals, mtimer, dev_process,
                   observer_thread, gates, initial, last_pass>>

TwiceSpec == TwiceInit /\ [][RunBuildOnce]_vars

\* ---- one event handed to the observer thread ---------------------------
EventTypes == {"created", "modified", "moved", "deleted"}

Paths ==
    { <<"src", "index.ts">>, <<"src", "App.tsx">>, <<"src", "util.js">>,
      <<"src", "view.jsx">>, <<"src", "styles.css">>, <<"src", "package.json">>,
      <<"src", "main.js">>, <<"src", "README.md">>, <<"src", ".eslintrc.json">>,
      <<"src", "node_modules", "index.ts">>, <<"node_modules", "pkg", "index.ts">>,
      <<"main.js">>, <<"styles.css">>, <<"manifest.json">>, <<"package.json">>,
      <<"tsconfig.json">>, <<"esbuild.config.mjs">>, <<"README.md">>,
      <<".gitignore">>, <<"src", "Makefile">> }

\* the watcher is in its loop, the observer thread is idle and one event
\* waits in its queue; call keeps the event and the timestamps' ages
FilterInit ==
    /\ mode = "watch"
    /\ vault_path = TRUE
    /\ manifest = "ok"
    /\ pc = "watching"
    /\ exit_code = -1
    /\ installed = TRUE
    /\ signals = 0
    /\ dev_process = "running"
    /\ observer = "started"
    /\ \E t \in EventTypes, d \in BOOLEAN, path \in Paths :
          queue = << [event_type |-> t, is_directory |-> d, src_path |-> path,
                      prompt |-> TRUE, near |-> FALSE] >>
    /\ emitted = 1
    /\ hpc = "idle"
    /\ htimer = 0
    /\ mtimer = 0
    /\ pipe = 0
    /\ rebuild_age \in 0..RebuildAgeCap
    /\ copy_age \in 0..CopyAgeCap
    /\ root = [f \in FileNames |-> File(1, 1)]
    /\ main_age = RecencyWindow
    /\ dest_kind = "dir"
    /\ dest = [f \in FileNames |-> File(1, 1)]
    /\ trigger = NoTrigger
    /\ initial = "ok"
    /\ checked = NoCheck
    /\ call = [op |-> "on_modified", event |-> Head(queue),
               rebuild_age |-> rebuild_age, copy_age |-> copy_age]
    /\ last_pass = NoPass

FilterSpec == FilterInit /\ [][Dispatch]_vars

\* ---- the Debounce Gates called on their own ----------------------------
\* a watcher fresh from __init__: both timestamps are 0, so both ages are
\* beyond every cooldown
GateInit ==
    /\ mode = "watch"
    /\ vault_path = TRUE
    /\ manifest = "ok"
    /\ pc = "watching"
    /\ exit_code = -1
    /\ installed = FALSE
    /\ signals = 0
    /\ dev_process = "none"
    /\ observer = "none"
    /\ queue = <<>>
    /\ emitted = 0
    /\ hpc = "idle"
    /\ htimer = 0
    /\ mtimer = 0
    /\ pipe = 0
    /\ rebuild_age = RebuildAgeCap
    /\ copy_age = CopyAgeCap
    /\ root = [f \in FileNames |-> File(1, 1)]
    /\ main_age = RecencyWindow
    /\ dest_kind = "dir"
    /\ dest = [f \in FileNames |-> File(1, 1)]
    /\ trigger = NoTrigger
    /\ initial = "none"
    /\ checked = NoCheck
    /\ call = [op |-> "__init__", n |-> 0, rebuild_age |-> rebuild_age,
               copy_age |-> copy_age, accept |-> FALSE]
    /\ last_pass = NoPass

\* call keeps the ages the call met, its answer and the number of calls made
CallShouldRebuild ==
    /\ call.op \in {"__init__", "time.sleep", "_should_rebuild", "_should_copy"}
    /\ call.n < MaxCalls
    /\ LET gate == _should_rebuild(rebuild_age) IN
          /\ rebuild_age' = gate.age
          /\ call' = [op |-> "_should_rebuild", n |-> call.n + 1,
                      rebuild_age |-> rebuild_age, copy_age |-> copy_age,
                      accept |-> gate.accept]
    /\ UNCHANGED <<inputs, checked, pipe, main_thread, dev_process, observer_thread,
                   copy_age, project, plugin_dir, initial, last_pass>>

CallShouldCopy ==
    /\ call.op \in {"__init__", "time.sleep", "_should_rebuild", "_should_copy"}
    /\ call.n < MaxCalls
    /\ LET gate == _should_copy(copy_age) IN
          /\ copy_age' = gate.age
          /\ call' = [op |-> "_should_copy", n |-> call.n + 1,
                      rebuild_age |-> rebuild_age, copy_age |-> copy_age,
                      accept |-> gate.accept]
    /\ UNCHANGED <<inputs, checked, pipe, main_thread, dev_process, observer_thread,
                   rebuild_age, project, plugin_dir, initial, last_pass>>

\* a second passes between two calls
Elapse ==
    /\ call.op \in {"__init__", "time.sleep", "_should_rebuild", "_should_copy"}
    /\ call.n < MaxCalls
    /\ rebuild_age' = Min(RebuildAgeCap, rebuild_age + 1)
    /\ copy_age' = Min(CopyAgeCap, copy_age + 1)
    /\ call' = [op |-> "time.sleep", n |-> call.n, rebuild_age |-> rebuild_age,
                copy_age |-> copy_age, accept |-> FALSE]
    /\ UNCHANGED <<inputs, checked, pipe, main_thread, dev_process, observer_thread,
                   project, plugin_dir, initial, last_pass>>

GateNext == CallShouldRebuild \/ CallShouldCopy \/ Elapse

GateSpec == GateInit /\ [][GateNext]_vars

\* ---- the program's own writes seen by the watcher ----------------------
\* The watcher service reports the program's own writes as well: main.js in
\* the project root, written by a rebuild or by pnpm run dev, and the files
\* the copy step writes, for a vault that lies inside the project root.
OwnEvent(path) ==
    [event_type |-> "modified", is_directory |-> FALSE, src_path |-> path,
     prompt |-> FALSE, near |-> FALSE]

InPluginDir(filename) == _load_plugin_info("ok").plugin_dir \o <<filename>>

OwnOutputPaths == {<<"main.js">>} \cup {InPluginDir(f) : f \in FileNames}

EventsOf(pass) ==
    (IF pass.wrote THEN <<OwnEvent(<<"main.js">>)>> ELSE <<>>)
    \o [i \in 1..Len(SelectSeq(files_to_copy, LAMBDA f : f \in pass.copied)) |->
          OwnEvent(InPluginDir(SelectSeq(files_to_copy, LAMBDA f : f \in pass.copied)[i]))]

\* Watching has just been entered
SelfInit ==
    /\ mode = "watch"
    /\ vault_path = TRUE
    /\ manifest = "ok"
    /\ pc = "watching"
    /\ exit_code = -1
    /\ installed = TRUE
    /\ signals = 0
    /\ dev_process = "running"
    /\ observer = "started"
    /\ queue = <<>>
    /\ emitted = 0
    /\ hpc = "idle"
    /\ htimer = 0
    /\ mtimer = 0
    /\ pipe = 0
    /\ rebuild_age = RebuildAgeCap
    /\ copy_age = CopyAgeCap
    /\ \E main_js \in {NoFile, Built}, styles \in {NoFile, File(1, 1)} :
          /\ root = [f \in FileNames |->
                       CASE f = "main.js" -> main_js
                         [] f = "styles.css" -> styles
                         [] OTHER -> File(1, 1)]
          /\ initial = IF main_js.exists THEN "ok" ELSE "failed"
          /\ dest = [f \in FileNames |-> IF main_js.exists THEN root[f] ELSE NoFile]
    /\ main_age \in {0, RecencyWindow}
    /\ dest_kind = "dir"
    /\ trigger = NoTrigger
    /\ checked = NoCheck
    /\ call = NoCall
    /\ last_pass = NoPass

\* the events of the writes of the rebuild that has just ended
OwnOutputEvents ==
    /\ exit_code = -1
    /\ observer = "started"
    /\ last_pass.kind = "rebuild"
    /\ EventsOf(last_pass) # <<>>
    /\ Len(queue) + Len(EventsOf(last_pass)) <= MaxQueue
    /\ queue' = queue \o EventsOf(last_pass)
    /\ Forget
    /\ UNCHANGED <<inputs, checked, pipe, call, main_thread, dev_process, observer, emitted,
                   hpc, htimer, trigger, gates, project, plugin_dir, initial>>

\* pnpm run dev writes main.js and the watcher service reports it
DevProcessBuilds ==
    /\ exit_code = -1
    /\ observer = "started"
    /\ dev_process = "running"
    /\ root["main.js"] # Built \/ main_age # 0
    /\ Len(queue) < MaxQueue
    /\ root' = [root EXCEPT !["main.js"] = Built]
    /\ main_age' = 0
    /\ queue' = Append(queue, OwnEvent(<<"main.js">>))
    /\ Forget
    /\ UNCHANGED <<inputs, checked, pipe, call, main_thread, dev_process, observer, emitted,
                   hpc, htimer, trigger, gates, plugin_dir, initial>>

SelfNext ==
    \/ EmitEvent
    \/ Dispatch
    \/ SettleOver
    \/ RebuildReturns
    \/ RebuildTimesOut
    \/ OwnOutputEvents
    \/ DevProcessBuilds
    \/ Tick
    \/ LongPause

SelfSpec ==
    /\ SelfInit
    /\ [][SelfNext]_vars
    /\ WF_vars(Dispatch)
    /\ WF_vars(SettleOver)
    /\ WF_vars(RebuildReturns \/ RebuildTimesOut)
    /\ WF_vars(Tick)

\* ---- the pipes of the background process -------------------------------
\* Popen(stdout=PIPE, stderr=PIPE) gives the background process pipes of
\* bounded capacity; nothing in the program reads self.dev_process.stdout or
\* self.dev_process.stderr.  pnpm run dev writes main.js and reports the
\* build on its pipe; a write to a full pipe blocks.  (Spec leaves the
\* reports out: there pipe stays 0 and the process is never blocked.)
DevProcessReports ==
    /\ exit_code = -1
    /\ dev_process = "running"
    /\ pipe < PipeCapacity
    /\ pipe' = pipe + 1
    /\ root' = [root EXCEPT !["main.js"] = Built]
    /\ main_age' = 0
    /\ Forget
    /\ UNCHANGED <<inputs, checked, call, main_thread, dev_process, observer_thread,
                   gates, plugin_dir, initial>>

PipeInit ==
    /\ Init
    /\ mode = "watch"
    /\ vault_path = TRUE
    /\ manifest = "ok"

PipeNext ==
    \/ ParseArgs
    \/ Construct
    \/ CreateDir
    \/ StartDevProcess
    \/ GraceOver
    \/ InitialCopy
    \/ SetUp
    \/ InstallHandlers
    \/ StartObserver
    \/ Signal("SIGINT")
    \/ Signal("SIGTERM")
    \/ Cleanup
    \/ WaitReturns
    \/ WaitTimesOut
    \/ StopObserver
    \/ JoinObserver
    \/ EmitEvent
    \/ Dispatch
    \/ SettleOver
    \/ RebuildReturns
    \/ RebuildTimesOut
    \/ DevProcessReports
    \/ Tick
    \/ LongPause

PipeSpec == PipeInit /\ [][PipeNext]_vars

\* ---- the Artifact Copier called on its own -----------------------------
CopyInit ==
    /\ mode = "watch"
    /\ vault_path = TRUE
    /\ manifest = "ok"
    /\ pc = "watching"
    /\ exit_code = -1
    /\ installed = FALSE
    /\ signals = 0
    /\ dev_process = "none"
    /\ observer = "none"
    /\ queue = <<>>
    /\ emitted = 0
    /\ hpc = "idle"
    /\ htimer = 0
    /\ mtimer = 0
    /\ pipe = 0
    /\ rebuild_age = RebuildAgeCap
    /\ copy_age = CopyAgeCap
    /\ \E main_js \in {NoFile, File(0, 1), Built},
          styles \in {NoFile, File(1, 1)},
          manifest_json \in {NoFile, File(1, 1)} :
          root = [f \in FileNames |->
                    CASE f = "main.js" -> main_js
                      [] f = "styles.css" -> styles
                      [] OTHER -> manifest_json]
    /\ main_age \in {0, RecencyWindow}
    /\ dest_kind \in {"absent", "dir", "file"}
    /\ dest = [f \in FileNames |-> IF dest_kind = "dir" THEN OldFile ELSE NoFile]
    /\ trigger = NoTrigger
    /\ initial = "none"
    /\ checked = NoCheck
    /\ call = NoCall
    /\ last_pass = NoPass

\* one call of _copy_plugin_files; failing is the set of files whose
\* shutil.copy2 raises in this call
CopyPass ==
    /\ call = NoCall
    /\ \E is_initial_copy \in BOOLEAN, failing \in SUBSET FileNames :
          LET r == _copy_plugin_files(is_initial_copy, root, main_age, dest_kind,
                                      dest, failing)
          IN  /\ dest_kind' = r.dest_kind
              /\ dest' = r.dest
              /\ call' = [op |-> "_copy_plugin_files",
                          is_initial_copy |-> is_initial_copy,
                          failing |-> failing, before |-> dest, r |-> r]
    /\ UNCHANGED <<inputs, checked, pipe, main_thread, dev_process, observer_thread,
                   gates, project, initial, last_pass>>

CopySpec == CopyInit /\ [][CopyPass]_vars

\* ---- the Build Verifier called on its own ------------------------------
\* every state of main.js (absent, or of a size up to MaxSize), every age up
\* to one second past the recency window, both policies
VerifyInit ==
    /\ mode = "watch"
    /\ vault_path = TRUE
    /\ manifest = "ok"
    /\ pc = "args"
    /\ exit_code = -1
    /\ installed = FALSE
    /\ signals = 0
    /\ dev_process = "none"
    /\ observer = "none"
    /\ queue = <<>>
    /\ emitted = 0
    /\ hpc = "idle"
    /\ htimer = 0
    /\ mtimer = 0
    /\ pipe = 0
    /\ rebuild_age = RebuildAgeCap
    /\ copy_age = CopyAgeCap
    /\ \E main_js \in {NoFile} \cup {File(size, 1) : size \in 0..MaxSize} :
          root = [f \in FileNames |-> IF f = "main.js" THEN main_js ELSE File(1, 1)]
    /\ main_age \in 0..(RecencyWindow + 1)
    /\ dest_kind = "dir"
    /\ dest = [f \in FileNames |-> NoFile]
    /\ trigger = NoTrigger
    /\ initial = "none"
    /\ \E is_initial_copy \in BOOLEAN :
          checked = [called |-> FALSE, is_initial_copy |-> is_initial_copy,
                     result |-> FALSE]
    /\ call = NoCall
    /\ last_pass = NoPass

CheckBuild ==
    /\ ~checked.called
    /\ checked' = [called |-> TRUE,
                   is_initial_copy |-> checked.is_initial_copy,
                   result |-> _check_build_success(checked.is_initial_copy,
                                                   root["main.js"], main_age)]
    /\ UNCHANGED <<inputs, pipe, call, main_thread, dev_process, observer_thread, gates,
                   project, plugin_dir, initial, last_pass>>

VerifySpec == VerifyInit /\ [][CheckBuild]_vars

\* ======================================================================
\* The claims
\* ======================================================================

\* a build-verify-copy pass has just ended with a build that failed
BuildFailed(pass) ==
    /\ pass.kind \in {"rebuild", "once"}
    /\ pass.outcome \in {"fail", "timeout", "error"}

\* a build has just exited 0 and main.js in the project root is non-empty
\* and younger than the recency window
GoodBuild ==
    /\ last_pass.kind \in {"rebuild", "once"}
    /\ last_pass.outcome = "ok"
    /\ root["main.js"].exists
    /\ root["main.js"].size > 0
    /\ main_age < RecencyWindow

\* C1: an event emitted less than rebuild_debounce_seconds after the emission
\* of a relevant event that started a rebuild at once never starts a second
\* rebuild, whenever it is dispatched.
C1_BurstStartsOneRebuild == ~trigger.near

\* C2: a step that ends a build-verify-copy pass whose build exited non-zero,
\* timed out or failed to launch copies nothing and leaves the destination
\* directory as it was.
C2_FailedBuildCopiesNothing ==
    [][BuildFailed(last_pass') =>
          /\ last_pass'.copied = {}
          /\ dest' = dest
          /\ dest_kind' = dest_kind]_vars

C2_Witness ==
    /\ last_pass.kind = "rebuild"
    /\ last_pass.outcome = "fail"
    /\ last_pass.wrote
    /\ root["main.js"] # dest["main.js"]

\* C3, as stated: after a build that exits 0 and leaves a fresh, non-empty
\* main.js, all three artifact files are in the destination, identical to
\* the project root's, and the copy reports success.
C3_AllThreeCopied ==
    GoodBuild =>
       /\ \A f \in FileNames : dest[f].exists /\ dest[f] = root[f]
       /\ last_pass.ok

\* C3, amended: after such a build the verification passes; when the
\* destination is a directory, every artifact file that exists in the project
\* root and whose copy does not fail is in the destination, identical to the
\* project root's; and the copy reports success exactly when it copied at
\* least one file.
C3_CopiesWhatExists ==
    GoodBuild =>
       /\ last_pass.verified
       /\ dest_kind = "dir" =>
             \A f \in FileNames :
                (root[f].exists /\ f \notin last_pass.failing) =>
                   (f \in last_pass.copied /\ dest[f] = root[f])
       /\ \A f \in last_pass.copied : dest[f] = root[f]
       /\ last_pass.ok <=> last_pass.copied # {}

C3_Witness ==
    /\ GoodBuild
    /\ ~root["styles.css"].exists
    /\ last_pass.copied = {"main.js", "manifest.json"}
    /\ last_pass.ok

\* C4: with is_initial_copy the verifier answers TRUE exactly when main.js
\* exists and is not empty, whatever its age; without it the verifier answers
\* FALSE whenever main.js is RecencyWindow seconds old or older; and it
\* answers FALSE when main.js is absent.
C4_TwoPolicies ==
    checked.called =>
       /\ checked.is_initial_copy =>
             (checked.result <=> (root["main.js"].exists /\ root["main.js"].size > 0))
       /\ (~checked.is_initial_copy /\ main_age >= RecencyWindow) => ~checked.result
       /\ ~root["main.js"].exists => ~checked.result

C4_Witness ==
    /\ checked.called
    /\ ~checked.is_initial_copy
    /\ root["main.js"].exists
    /\ root["main.js"].size > 0
    /\ main_age = RecencyWindow
    /\ ~checked.result

\* C5: a rebuild whose build exits 0 without writing main.js never copies
\* the main.js an earlier build left behind.
C5_NoStaleCopy ==
    (last_pass.kind = "rebuild" /\ last_pass.outcome = "ok" /\ ~last_pass.wrote) =>
       "main.js" \notin last_pass.copied

\* a rebuild has just ended in a failure of one of its stages while the main
\* thread is in its sleep loop
FailedWhileWatching ==
    /\ last_pass.kind = "rebuild"
    /\ ~last_pass.ok
    /\ pc = "watching"

\* C6: when a stage of a rebuild fails in the Watching state, the main thread
\* stays in its sleep loop, the observer stays started, the observer thread
\* is back waiting for events, and the next relevant event it takes that the
\* debounce gate accepts starts a rebuild.
C6_FailureKeepsWatching ==
    [][FailedWhileWatching =>
          /\ exit_code = -1
          /\ observer = "started"
          /\ hpc = "idle"
          /\ (/\ queue # <<>>
              /\ queue' = Tail(queue)
              /\ CallsOnModified(Head(queue))
              /\ IsRelevant(Head(queue))
              /\ _should_rebuild(rebuild_age).accept) => hpc' = "settle"]_vars

C6_Witness ==
    /\ FailedWhileWatching
    /\ last_pass.outcome = "ok"
    /\ last_pass.verified
    /\ queue # <<>>
    /\ IsRelevant(Head(queue))
    /\ _should_rebuild(rebuild_age).accept

\* watch mode has ended before the observer was created and without a signal
StartFailed ==
    /\ mode = "watch"
    /\ pc = "stopped"
    /\ signals = 0

DescriptorFailed == ~ManifestLoads
DirectoryFailed == ManifestLoads /\ dest_kind = "absent"
LaunchFailed == ManifestLoads /\ dest_kind # "absent" /\ dev_process = "none"

\* C7, as stated: watch mode ends during start-up with a non-zero status only
\* when the descriptor does not load or the destination directory cannot be
\* created (or, before Starting, when no vault path is given).
C7_OnlyTwoFatal ==
    (StartFailed /\ exit_code # 0) => (~vault_path \/ DescriptorFailed \/ DirectoryFailed)

\* C7, amended: watch mode ends during start-up only with status 1 and only
\* when no vault path is given, the descriptor does not load, the destination
\* directory cannot be created, the background subprocess cannot be launched,
\* or the initial copy raises; an initial copy that reports failure stops
\* nothing, and the main thread goes on to the sleep loop.
C7_FatalInStarting ==
    /\ StartFailed =>
          /\ exit_code = 1
          /\ \/ ~vault_path
             \/ DescriptorFailed
             \/ DirectoryFailed
             \/ LaunchFailed
             \/ initial = "raised"
    /\ (mode = "watch" /\ initial = "failed" /\ signals = 0) =>
          /\ exit_code = -1
          /\ pc \in {"setup", "install", "obs_start", "watching"}

C7_Witness ==
    /\ initial = "failed"
    /\ pc = "watching"
    /\ observer = "started"
    /\ dev_process = "running"

C9_SignalStopsSubprocess ==
    (mode = "watch" /\ pc = "stopped" /\ signals > 0) =>
       dev_process \in {"terminated", "killed"}

\* the one-shot pass succeeded: the build exited 0, the verification passed
\* and at least one file was copied
OnceSucceeded ==
    /\ last_pass.kind = "once"
    /\ last_pass.outcome = "ok"
    /\ last_pass.verified
    /\ last_pass.copied # {}

\* C10: one-shot mode always ends, and it ends with status 0 exactly when the
\* build exited 0 in time, the verification of main.js passed and at least
\* one file was copied, with status 1 otherwise.
C10_OneShotEnds ==
    /\ [](pc = "stopped" => (/\ exit_code \in {0, 1}
                             /\ exit_code = 0 <=> OnceSucceeded))
    /\ <>(pc = "stopped")

C10_Witness ==
    /\ pc = "stopped"
    /\ exit_code = 1
    /\ last_pass.kind = "once"
    /\ last_pass.outcome = "ok"
    /\ last_pass.verified
    /\ last_pass.copied = {}

\* no vault path is given, or manifest.json is missing, malformed or without
\* an id
ConfigError == ~vault_path \/ manifest \in {"missing", "malformed", "no_id"}

\* C11: with a configuration error the process, in either mode, ends with
\* status 1 without ever creating the destination directory, launching a
\* build or the background subprocess, or copying a file; and for a manifest
\* that has an id the descriptor holds that id, the name of the manifest or,
\* when it has none, the id, and the directory
\* <vault root>/.obsidian/plugins/<id>.
C11_ConfigErrorIsFatal ==
    /\ [](ConfigError =>
             /\ pc \in {"args", "construct", "stopped"}
             /\ pc = "stopped" => exit_code = 1
             /\ dev_process = "none"
             /\ last_pass = NoPass)
    /\ [][ConfigError => UNCHANGED <<dest_kind, dest, root>>]_vars
    /\ [](ConfigError => <>(pc = "stopped"))
    /\ [](manifest \in {"no_name", "ok"} =>
             LET info == _load_plugin_info(manifest) IN
             /\ info.id = PluginId
             /\ info.name = IF manifest = "no_name" THEN PluginId ELSE PluginName
             /\ info.plugin_dir = <<"vault", ".obsidian", "plugins", "my-plugin">>)

C11_Witness ==
    /\ pc = "stopped"
    /\ exit_code = 1
    /\ vault_path
    /\ manifest = "no_id"
    /\ dest_kind = "absent"

\* C12: when build_and_copy_once is run again with the same sources, the same
\* build and the same environment, the run reports what the first run
\* reported and leaves the destination directory as the first run left it.
C12_SecondRunChangesNothing ==
    (call.op = "build_and_copy_once" /\ call.runs >= 2) =>
       /\ (exit_code = 0) = call.first.result
       /\ dest_kind = call.first.dest_kind
       /\ dest = call.first.dest

C12_Witness ==
    /\ call.op = "build_and_copy_once"
    /\ call.runs = 2
    /\ call.first.result
    /\ call.first.dest_kind = "dir"
    /\ dest["main.js"] = Built
    /\ call.env.failing = {"styles.css"}

\* C13: in a copy pass over main.js, styles.css, manifest.json a file that is
\* missing or whose copy fails does not stop the files after it from being
\* copied, a file copied earlier stays in the destination, and the pass
\* reports success exactly when the set of copied files is not empty.
C13_PartialFailureTolerated ==
    call.op = "_copy_plugin_files" =>
       /\ call.r.ok = (call.r.copied # {})
       /\ (call.r.verified /\ ~call.r.raised) =>
             /\ call.r.copied =
                   {f \in FileNames : root[f].exists /\ f \notin call.failing}
             /\ \A f \in FileNames :
                   dest[f] = IF f \in call.r.copied THEN root[f] ELSE call.before[f]

C13_Witness ==
    /\ call.op = "_copy_plugin_files"
    /\ call.failing = {"styles.css"}
    /\ call.r.copied = {"main.js", "manifest.json"}
    /\ call.r.ok
    /\ dest["main.js"] = root["main.js"]
    /\ dest["manifest.json"] = root["manifest.json"]
    /\ dest["styles.css"] = call.before["styles.css"]

\* the event of FilterSpec has been handed to the handler
Handled == call.op = "on_modified" /\ queue = <<>>

\* C14: an event whose extension is outside the allow-list, whose path has a
\* node_modules segment, that is a directory event, a hidden file or main.js
\* starts no rebuild and leaves last_rebuild_time and last_copy_time as they
\* were.
C14_RejectedEventChangesNothing ==
    LET event == call.event
        name == Name(event.src_path)
    IN  ( /\ Handled
          /\ \/ Suffix(name) \notin {".ts", ".tsx", ".js", ".jsx", ".json", ".css"}
             \/ "node_modules" \in Parts(event.src_path)
             \/ event.is_directory
             \/ StartsWithDot(name)
             \/ name = "main.js" )
        => /\ hpc = "idle"
           /\ rebuild_age = call.rebuild_age
           /\ copy_age = call.copy_age

C14_Witness ==
    /\ Handled
    /\ call.event.event_type = "modified"
    /\ ~call.event.is_directory
    /\ call.event.src_path = <<"src", "node_modules", "index.ts">>
    /\ call.rebuild_age = RebuildAgeCap
    /\ rebuild_age = RebuildAgeCap
    /\ hpc = "idle"

\* C15: two rebuilds are never in flight together and two copy passes never
\* write plugin_dir together: the initial copy pass ends before the observer
\* exists, one-shot mode has no observer, an event is taken off the queue
\* only when the observer thread is not inside on_modified, and a rebuild's
\* copy pass is the last step of that rebuild on the observer thread.
C15_OneRebuildAtATime ==
    /\ [](pc \in {"grace", "initial_copy"} => (observer = "none" /\ hpc = "idle"))
    /\ [](last_pass.kind \in {"initial", "once"} => (observer = "none" /\ hpc = "idle"))
    /\ [](observer # "none" => (mode = "watch" /\ initial # "none"))
    /\ [][Len(queue') < Len(queue) => hpc = "idle"]_vars
    /\ [][(hpc' = "settle" /\ hpc # "settle") => hpc = "idle"]_vars
    /\ [][(hpc' = "building" /\ hpc # "building") => hpc = "settle"]_vars
    /\ [][last_pass'.kind = "rebuild" =>
             (hpc = "building" /\ hpc' \in {"idle", "dead"})]_vars

C15_Witness ==
    /\ hpc = "building"
    /\ htimer >= 1
    /\ queue # <<>>
    /\ IsRelevant(Head(queue))
    /\ rebuild_age > rebuild_debounce_seconds
    /\ signals > 0

\* the observer thread has just accepted an event as a rebuild trigger
JustTriggered == hpc = "settle" /\ htimer = 0

\* C16: an event that triggers a rebuild has passed the change-acceptance
\* gate _should_copy and then the rebuild gate _should_rebuild, so each gate
\* has stamped its timestamp with the time of the trigger.
C16_BothGatesPassed ==
    JustTriggered => (copy_age = 0 /\ rebuild_age = 0)

\* in the running program last_rebuild_time is made newer only by the event
\* that starts a rebuild, and last_copy_time by nothing
OnlyTheGatesStamp ==
    /\ [][rebuild_age' < rebuild_age => (hpc = "idle" /\ hpc' = "settle")]_vars
    /\ [][copy_age' >= copy_age]_vars

\* C17: a gate accepts a call exactly when more than its cooldown has passed
\* since its last accepted timestamp, so the first call after construction is
\* accepted; it stamps its timestamp only when it accepts, leaves it alone
\* when it rejects, and never touches the other gate's timestamp; the passage
\* of time alone makes no timestamp newer.
C17_GateFrame ==
    /\ call.op = "_should_rebuild" =>
          /\ call.accept = (call.rebuild_age > rebuild_debounce_seconds)
          /\ rebuild_age = IF call.accept THEN 0 ELSE call.rebuild_age
          /\ copy_age = call.copy_age
    /\ call.op = "_should_copy" =>
          /\ call.accept = (call.copy_age > debounce_seconds)
          /\ copy_age = IF call.accept THEN 0 ELSE call.copy_age
          /\ rebuild_age = call.rebuild_age
    /\ (call.op \in {"_should_rebuild", "_should_copy"} /\ call.n = 1) => call.accept
    /\ call.op = "time.sleep" =>
          (rebuild_age >= call.rebuild_age /\ copy_age >= call.copy_age)

C17_Witness ==
    /\ call.op = "_should_copy"
    /\ call.n = 3
    /\ ~call.accept
    /\ call.copy_age = debounce_seconds
    /\ copy_age = debounce_seconds
    /\ rebuild_age = 0

\* the event of FilterSpec was a modification of a file, met by a rebuild
\* gate that accepts
ModifiedAndAccepted ==
    /\ Handled
    /\ call.event.event_type = "modified"
    /\ ~call.event.is_directory
    /\ call.rebuild_age > rebuild_debounce_seconds

\* C18: a modification of package.json, tsconfig.json or esbuild.config.mjs
\* in the project root, or of a non-hidden file under src with an allow-listed
\* extension that is not named main.js, starts a rebuild whenever the
\* debounce gate accepts it.  (Paths through node_modules are left aside.)
C18_ConfigFilesRelevant ==
    LET path == call.event.src_path
        name == Name(path)
    IN  ( /\ ModifiedAndAccepted
          /\ "node_modules" \notin Parts(path)
          /\ \/ /\ Len(path) = 1
                /\ name \in {"package.json", "tsconfig.json", "esbuild.config.mjs"}
             \/ /\ InSrc(path)
                /\ ~StartsWithDot(name)
                /\ Suffix(name) \in {".ts", ".tsx", ".js", ".jsx", ".json", ".css"}
                /\ name # "main.js" )
        => hpc = "settle"

\* C19: a relevant event met by a rebuild gate that accepts starts the settle
\* delay and the rebuild whatever its type: created, modified, moved or
\* deleted.
C19_AnyEventTypeRebuilds ==
    ( /\ Handled
      /\ call.event.event_type \in EventTypes
      /\ IsRelevant(call.event)
      /\ call.rebuild_age > rebuild_debounce_seconds )
    => hpc = "settle"

\* C20: a copy pass of any kind (initial, one-shot, after a rebuild) copies
\* files only when main.js is not empty at verification time, so a zero-byte
\* main.js never reaches plugin_dir.
C20_EmptyMainNeverCopied ==
    last_pass.copied # {} =>
       /\ root["main.js"].size > 0
       /\ dest["main.js"].exists => dest["main.js"].size > 0

\* signal_handler is running: cleanup, observer.stop() or observer.join()
ShuttingDown == installed /\ pc \in {"cleanup", "wait", "obs_stop", "obs_join"}

\* C21: once a termination signal has been received no new rebuild starts:
\* an observer thread that is outside on_modified while signal_handler runs
\* does not enter the settle delay; only a rebuild in flight may go on.
C21_NoRebuildWhileShuttingDown ==
    [][(ShuttingDown /\ hpc = "idle") => hpc' = "idle"]_vars

\* a relevant modification event waits in the observer's queue
RelevantWaiting ==
    \E i \in 1..Len(queue) : CallsOnModified(queue[i]) /\ IsRelevant(queue[i])

\* C22: without a termination signal every relevant modification event is
\* followed by the start of a rebuild: the event leaves the queue, also when
\* it was queued while a rebuild was executing, the debounce gate never
\* rejects it, so its own dispatch starts the settle delay, and the settle
\* delay is followed by the build.
C22_NoChangeLeftUnbuilt ==
    /\ (RelevantWaiting \/ hpc = "settle") ~>
          ((~RelevantWaiting /\ hpc = "building") \/ signals > 0)
    /\ [][( /\ signals = 0
            /\ queue # <<>>
            /\ queue' = Tail(queue)
            /\ CallsOnModified(Head(queue))
            /\ IsRelevant(Head(queue)) ) => hpc' = "settle"]_vars

C22_Witness ==
    /\ JustTriggered
    /\ ~trigger.prompt
    /\ emitted = 2
    /\ signals = 0
    /\ pc = "watching"

\* C23: an event for the program's own output (main.js in the project root,
\* the files the copy step writes) is never accepted as a trigger: its
\* dispatch starts no rebuild and leaves last_rebuild_time alone; so only
\* finitely many rebuilds occur and the observer thread ends up idle for good.
C23_NeverTriggersItself ==
    /\ [][( /\ queue # <<>>
            /\ queue' = Tail(queue)
            /\ Head(queue).src_path \in OwnOutputPaths )
          => (hpc' = "idle" /\ rebuild_age' = rebuild_age)]_vars
    /\ <>[](hpc = "idle")

C23_Witness ==
    /\ pc = "watching"
    /\ hpc = "idle"
    /\ queue # <<>>
    /\ Head(queue) = OwnEvent(InPluginDir("styles.css"))
    /\ _should_rebuild(rebuild_age).accept
    /\ dest["main.js"] = Built

\* nothing the program does takes a report out of the pipe
PipeNeverRead == [][pipe' >= pipe]_vars

\* C24: while the controller is Watching the background process is never
\* blocked by it: the process can always write to its pipe.
C24_SubprocessNeverBlocked ==
    (pc = "watching" /\ dev_process = "running") => pipe < PipeCapacity

====
